---- MODULE Spec2Model ----
(***************************************************************************)
(* Model of the Shopify -> Supabase synchronisation handlers:              *)
(*   product sync  POST  (src/unnamed/part_004)                            *)
(*   order sync    POST  (src/app/api/supabase/products/route.ts:247-655)  *)
(*   remote client       (src/lib/shopify/client.ts)                       *)
(* One handler runs at a time.  Every awaited database call may return an  *)
(* error; every page request may fail.  The relational store is a plain    *)
(* set of tables whose rows carry a generated internal id (their position  *)
(* in the table) and an external shopify_id.                               *)
(***************************************************************************)
EXTENDS Integers, Sequences, FiniteSets, TLC

\* ---------------------------------------------------------------- bounds
MaxRuns == 2
MaxErrs == 1
MaxRequests == 4
MaxHandlers == 2
MaxMutations == 2

\* ------------------------------------------------------- JavaScript values
Null == 0
Undefined == "undefined"
NullCursor == "null"
\* dates are day numbers; an empty date string is NoDate, an argument that is
\* left out UndefinedDate
NoDate == 0
UndefinedDate == -1
NoArgs == <<UndefinedDate, UndefinedDate>>
ErrorCounting == -1

\* variant of OrUndefined: the cursor is never advanced
OrUndefined_Dropped(endCursor) == Undefined

\* `x || undefined` applied to pageInfo.endCursor: null and '' are falsy
OrUndefined(endCursor) ==
  IF endCursor = NullCursor \/ endCursor = "" THEN Undefined ELSE endCursor

\* ------------------------------------------- optional field values
\* A field of a remote record or a column of a payload is a tagged value:
\* null, undefined, a number (n, in hundredths; NaN has its own tag), a string
\* (s, its characters) or a Date / ISO timestamp (n, the instant).
JsNull == [t |-> "null", n |-> 0, s |-> <<>>]
JsUndefined == [t |-> "undefined", n |-> 0, s |-> <<>>]
NaN == [t |-> "nan", n |-> 0, s |-> <<>>]
Num(n) == [t |-> "number", n |-> n, s |-> <<>>]
Str(s) == [t |-> "string", n |-> 0, s |-> s]
DateOf(instant) == [t |-> "date", n |-> instant, s |-> <<>>]
IsoString(instant) == [t |-> "string", n |-> instant, s |-> <<"T", "Z">>]

Digits == <<"0", "1", "2", "3", "4", "5", "6", "7", "8", "9">>
IsDigit(c) == \E d \in 1..Len(Digits) : Digits[d] = c
DigitVal(c) == (CHOOSE d \in 1..Len(Digits) : Digits[d] = c) - 1

RECURSIVE SkipSpaces(_, _)
SkipSpaces(s, i) == IF i <= Len(s) /\ s[i] = " " THEN SkipSpaces(s, i + 1) ELSE i

RECURSIVE DigitRun(_, _)
DigitRun(s, i) == IF i <= Len(s) /\ IsDigit(s[i]) THEN 1 + DigitRun(s, i + 1) ELSE 0

RECURSIVE NatOf(_, _, _)
NatOf(s, i, len) ==
  IF len = 0 THEN 0 ELSE NatOf(s, i, len - 1) * 10 + DigitVal(s[i + len - 1])

\* parseFloat(string): leading blanks, a sign, digits, a fraction; the longest
\* such prefix is the number (kept to hundredths), no digit at all is NaN
ParseFloat(s) ==
  LET start == SkipSpaces(s, 1)
      signed == start <= Len(s) /\ s[start] \in {"-", "+"}
      i == IF signed THEN start + 1 ELSE start
      intLen == DigitRun(s, i)
      dot == i + intLen <= Len(s) /\ s[i + intLen] = "."
      fracLen == IF dot THEN DigitRun(s, i + intLen + 1) ELSE 0
      frac == IF fracLen = 0 THEN 0
              ELSE IF fracLen = 1 THEN 10 * DigitVal(s[i + intLen + 1])
              ELSE NatOf(s, i + intLen + 1, 2)
      magnitude == 100 * NatOf(s, i, intLen) + frac
  IN IF intLen = 0 /\ fracLen = 0 THEN NaN
     ELSE Num(IF signed /\ s[start] = "-" THEN 0 - magnitude ELSE magnitude)

\* isNaN(num)
IsNaN(num) == num.t = "nan"

\* safeValue(value, defaultValue)
SafeValue(value, defaultValue) ==
  IF value.t # "undefined" /\ value.t # "null" THEN value ELSE defaultValue

\* safeString(value, defaultValue = undefined)
SafeString(value, defaultValue) == SafeValue(value, defaultValue)

\* variant of SafeNumber: the result of the conversion is returned unchecked
SafeNumber_Unchecked(value, defaultValue) ==
  IF value.t = "null" \/ value.t = "undefined" THEN defaultValue
  ELSE IF value.t = "string" THEN ParseFloat(value.s) ELSE value

\* safeNumber(value, defaultValue = 0)
SafeNumber(value, defaultValue) ==
  IF value.t = "null" \/ value.t = "undefined" THEN defaultValue
  ELSE LET num == IF value.t = "string" THEN ParseFloat(value.s) ELSE value
       IN IF IsNaN(num) THEN defaultValue ELSE num

\* variant of SafeDate: the value is passed on as it came
SafeDate_AsIs(value, defaultValue) == value

\* safeDate(value, defaultValue = undefined)
SafeDate(value, defaultValue) ==
  IF value.t = "null" \/ value.t = "undefined" THEN defaultValue
  ELSE IF value.t = "date" THEN IsoString(value.n)
  ELSE value

\* ----------------------------------------------------------- remote data
Page(records, more, endCursor) ==
  [records |-> records, hasNextPage |-> more, endCursor |-> endCursor]

\* the optional fields of a product: description, createdAt, totalInventory and
\* priceRange.minVariantPrice.amount
Optional(description, createdAt, totalInventory, priceMin) ==
  [description |-> description, createdAt |-> createdAt,
   totalInventory |-> totalInventory, priceMin |-> priceMin]

Prod(id, title, optional, variants, images) ==
  [id |-> id, title |-> title, description |-> optional.description,
   createdAt |-> optional.createdAt, totalInventory |-> optional.totalInventory,
   priceMin |-> optional.priceMin, variants |-> variants, images |-> images]

\* a variant with its id and price.amount
Variant(id, price) == [id |-> id, price |-> price]

\* a line item with its id, variant.product.id, variant.id, quantity and
\* variant.price.amount
Item(id, product, variant, quantity, price) ==
  [id |-> id, product |-> product, variant |-> variant, quantity |-> quantity,
   price |-> price]

\* the optional fields of an order: email and totalPrice.amount
Totals(email, totalPrice) == [email |-> email, totalPrice |-> totalPrice]

Ord(id, name, processedAt, totals, customer, shipping, billing, lineItems) ==
  [id |-> id, name |-> name, processedAt |-> processedAt, email |-> totals.email,
   totalPrice |-> totals.totalPrice, customer |-> customer,
   shippingAddress |-> shipping, billingAddress |-> billing, lineItems |-> lineItems]

Complete == Optional(Str(<<"d">>), IsoString(1), Num(500), Str(<<"1", "2", ".", "5", "u">>))
Missing == Optional(JsNull, JsNull, JsNull, JsUndefined)

prodA == Prod("p1", "t", Complete,
              <<Variant("v1", Str(<<"1", "9", ".", "9", "9">>)), Variant("", JsNull),
                Variant("v3", JsUndefined)>>,
              <<"i1">>)
prodNoTitle == Prod("p2", "", Complete, <<Variant("v2", Num(100))>>, <<>>)
prodNoId == Prod("", "t", Missing, <<>>, <<"i2">>)
prodB == Prod("p3", "t", Missing, <<>>, <<"">>)

ProductCatalogs ==
  { <<Page(<<prodA>>, FALSE, "k1")>>,
    <<Page(<<prodNoTitle>>, TRUE, "k1"), Page(<<prodA, prodNoId>>, TRUE, "k2"),
      Page(<<prodB>>, FALSE, NullCursor)>>,
    <<Page(<<prodB>>, TRUE, "k1"), Page(<<>>, FALSE, NullCursor), Page(<<prodA>>, FALSE, "k3")>> }

ordA == Ord("o1", "n", 1, Totals(Str(<<"a">>), Str(<<"-", "3">>)), "c1", TRUE, TRUE,
            <<Item("l1", "p1", "v1", Num(200), Str(<<" ", "7">>)),
              Item("", "p1", "", JsNull, JsNull),
              Item("l2", "", "", NaN, JsUndefined)>>)
ordNoName == Ord("o2", "", 1, Totals(JsNull, Num(100)), "c1", TRUE, FALSE,
                 <<Item("l3", "p1", "v1", Num(100), Num(100))>>)
ordNoId == Ord("", "n", 1, Totals(JsNull, Num(100)), "", FALSE, FALSE, <<>>)
ordNoDate == Ord("o4", "n", NoDate, Totals(JsNull, Num(100)), "c1", FALSE, TRUE,
                 <<Item("l4", "", "", Num(100), Num(100))>>)
ordB == Ord("o3", "n", 2, Totals(JsNull, Str(<<"x">>)), "", TRUE, FALSE,
            <<Item("l5", "p3", "", JsNull, Str(<<>>))>>)

OrderCatalogs ==
  { <<Page(<<ordA>>, FALSE, "k1")>>,
    <<Page(<<ordNoName>>, TRUE, "k1"), Page(<<ordA, ordNoDate>>, TRUE, "k2"),
      Page(<<ordB>>, FALSE, NullCursor)>>,
    <<Page(<<ordNoId, ordB>>, TRUE, "k1"), Page(<<>>, FALSE, NullCursor), Page(<<ordA>>, FALSE, "k3")>> }

\* The page the remote serves for an `after` cursor: no cursor is page 1,
\* the endCursor of page i is followed by page i+1.
PageIndex(catalog, after) ==
  IF after = Undefined THEN 1
  ELSE IF \E i \in 1..Len(catalog) : catalog[i].endCursor = after
       THEN 1 + CHOOSE i \in 1..Len(catalog) : catalog[i].endCursor = after
       ELSE Len(catalog) + 1

RemotePage(catalog, after) ==
  IF PageIndex(catalog, after) <= Len(catalog)
  THEN catalog[PageIndex(catalog, after)]
  ELSE Page(<<>>, FALSE, NullCursor)

\* ---------------------------------------------------------------- state
VARIABLES
  remoteProducts, remoteOrders,
  products, product_variants, product_images,
  orders, customers, addresses, line_items,
  kind, pc, hasNextPage, cursor, allProducts, allOrders,
  idx, childIdx, syncedCount, productId, orderId, customerId, startDate, endDate,
  response,
  runs, errsLeft, requests, served, runClean, wrote,
  parentLog, itemLog, lastStep, prevEnd, waits,
  args, syncResult, listing, connected, revalidated,
  handlers,
  syncState, mutations

store == <<products, product_variants, product_images,
           orders, customers, addresses, line_items>>
remote == <<remoteProducts, remoteOrders>>
locals == <<hasNextPage, cursor, allProducts, allOrders, idx, childIdx,
            syncedCount, productId, orderId, customerId, startDate, endDate>>
history == <<requests, served, runClean, wrote, parentLog, itemLog, lastStep, prevEnd,
             waits>>
call == <<args, syncResult, listing, connected, revalidated>>
hooks == <<syncState, mutations>>
vars == <<remote, store, kind, pc, locals, response, runs, errsLeft, history, call,
          handlers, hooks>>

\* ------------------------------------------------------------- database
\* rows of `table` selected by .eq('shopify_id', key)
ByShopifyId(table, key) == {i \in 1..Len(table) : table[i].shopify_id = key}

\* .maybeSingle(): a failed query or more than one matching row is an error
\* with data null, no row is data null, one row is that row (its id).
MaybeSingle(rows, failed) ==
  IF failed \/ Cardinality(rows) > 1 THEN [data |-> Null, error |-> TRUE]
  ELSE IF rows = {} THEN [data |-> Null, error |-> FALSE]
  ELSE [data |-> CHOOSE i \in rows : TRUE, error |-> FALSE]

\* .insert(row): the generated id is the position of the new row
Insert(table, row) == Append(table, row)

\* variant of Update: the row is added instead of replaced
Update_AsInsert(table, id, row) == Append(table, row)

\* .update(row).eq('id', id)
Update(table, id, row) == [table EXCEPT ![id] = row]

N(b) == IF b THEN 1 ELSE 0

Counts == [products |-> Len(products), product_variants |-> Len(product_variants),
           product_images |-> Len(product_images), orders |-> Len(orders),
           customers |-> Len(customers), addresses |-> Len(addresses),
           line_items |-> Len(line_items)]

NoResponse == [success |-> FALSE, status |-> 0, count |-> 0, syncedCount |-> 0,
               databaseCount |-> 0]
NoStep == [op |-> "none", reads |-> 0, writes |-> 0, errs |-> {}]

\* SyncResponse: success, count and whether `error` is set; not settled while
\* the call is in flight
SyncResponse(success, count, error) ==
  [settled |-> TRUE, success |-> success, count |-> count, error |-> error]
NoResult == [settled |-> FALSE, success |-> FALSE, count |-> 0, error |-> FALSE]

\* the response of the orders listing: the ids of the orders on the page and
\* pagination.total; status 0 while no listing was requested since the last sync
Listing(status, range, rows, total) ==
  [status |-> status, range |-> range, rows |-> rows, total |-> total]
NoListing == Listing(0, <<NoDate, NoDate>>, {}, 0)

\* concurrently running sync handlers: position, kind, loop index and the
\* row its existence check returned
Handlers == 1..MaxHandlers
IdleHandler == [pc |-> "idle", kind |-> "none", idx |-> 0, existing |-> Null]

\* the two hooks of the sync page and their useState initial value
Hooks == {"products", "orders"}
SyncStateOf(status, count) == [status |-> status, count |-> count]
InitialSyncState == SyncStateOf("idle", 0)

\* empty store, no call made yet; `budget` database calls may be made to fail
InitWith(budget) ==
  /\ remoteProducts \in ProductCatalogs
  /\ remoteOrders \in OrderCatalogs
  /\ products = <<>> /\ product_variants = <<>> /\ product_images = <<>>
  /\ orders = <<>> /\ customers = <<>> /\ addresses = <<>> /\ line_items = <<>>
  /\ kind = "none" /\ pc = "idle"
  /\ hasNextPage = FALSE /\ cursor = Undefined
  /\ allProducts = <<>> /\ allOrders = <<>>
  /\ idx = 0 /\ childIdx = 0 /\ syncedCount = 0
  /\ productId = Null /\ orderId = Null /\ customerId = Null
  /\ startDate = NoDate /\ endDate = NoDate
  /\ response = NoResponse
  /\ runs = 0 /\ errsLeft = budget
  /\ requests = <<>> /\ served = <<>> /\ runClean = TRUE /\ wrote = FALSE
  /\ parentLog = <<>> /\ itemLog = {} /\ lastStep = NoStep /\ waits = <<>>
  /\ args = NoArgs /\ syncResult = NoResult /\ listing = NoListing
  /\ connected = FALSE /\ revalidated = {}
  /\ handlers = [h \in Handlers |-> IdleHandler]
  /\ syncState = [h \in Hooks |-> InitialSyncState]
  /\ mutations = [h \in Hooks |-> <<>>]
  /\ prevEnd = [kind |-> "none", clean |-> FALSE,
                counts |-> [products |-> 0, product_variants |-> 0, product_images |-> 0,
                            orders |-> 0, customers |-> 0, addresses |-> 0, line_items |-> 0]]

Init == InitWith(MaxErrs)

\* ------------------------------------------------------ run bookkeeping
\* what a call evaluates to: a value, or an exception thrown
Thrown == [thrown |-> TRUE, data |-> NoResponse]
Returned(data) == [thrown |-> FALSE, data |-> data]

\* variant of BeforeHandler: the connection test is left out
BeforeHandler_NoTest(endpointDefined, connectionOk) ==
  IF ~endpointDefined THEN Thrown ELSE Returned(NoResponse)

\* callShopifySync ahead of the handler call: `if (!endpoint) throw`, then
\* `await testShopifyConnection()`, which throws unless the shop answers ok
BeforeHandler(endpointDefined, connectionOk) ==
  IF ~endpointDefined THEN Thrown
  ELSE IF ~connectionOk THEN Thrown
  ELSE Returned(NoResponse)

\* syncProductsAction revalidates '/products', syncOrdersAction '/orders'
PathToRevalidate(k) == IF k = "products" THEN "/products" ELSE "/orders"

\* database calls may be made to fail while the error budget lasts
Budget(n) == n <= errsLeft

Log(op, reads, writes, errs, injected) ==
  /\ lastStep' = [op |-> op, reads |-> reads, writes |-> writes, errs |-> errs]
  /\ runClean' = (runClean /\ errs = {})
  /\ wrote' = (wrote \/ writes > 0)
  /\ errsLeft' = errsLeft - injected

BeginRun(k) ==
  /\ pc \in {"idle", "returned"}
  /\ runs < MaxRuns
  /\ runs' = runs + 1
  /\ kind' = k
  /\ prevEnd' = [kind |-> kind, clean |-> (runClean /\ response.success), counts |-> Counts]
  /\ requests' = <<>> /\ served' = <<>> /\ waits' = <<>>
  /\ listing' = NoListing /\ revalidated' = {}
  /\ parentLog' = <<>> /\ itemLog' = {}
  /\ allProducts' = <<>> /\ allOrders' = <<>>
  /\ hasNextPage' = TRUE /\ cursor' = Undefined
  /\ idx' = 0 /\ childIdx' = 0 /\ syncedCount' = 0
  /\ productId' = Null /\ orderId' = Null /\ customerId' = Null

Failure(status) == [success |-> FALSE, status |-> status, count |-> 0, syncedCount |-> 0,
                    databaseCount |-> 0]

\* variant of WhileCondition: the loop never looks at hasNextPage
WhileCondition_Always == TRUE

\* `while (hasNextPage)`
WhileCondition == hasNextPage

\* variant of CatchBlock: a failed request is retried
CatchBlock_Retry == [pc |-> "fetch", response |-> NoResponse]

\* a request that fails throws out of the handler into its catch block
CatchBlock == [pc |-> "done", response |-> Failure(500)]

\* setTimeout(resolve, 500)
RateLimitDelay == 500

\* variant of DelayAfter: the wait grows with the pages fetched
DelayAfter_Backoff(more, fetched) ==
  IF more THEN <<[after |-> fetched, ms |-> RateLimitDelay * fetched]>> ELSE <<>>

\* `if (hasNextPage) await new Promise(resolve => setTimeout(resolve, 500))`:
\* the waits taken after the response to request number `fetched`
DelayAfter(more, fetched) ==
  IF more THEN <<[after |-> fetched, ms |-> RateLimitDelay]>> ELSE <<>>

\* ------------------------------------------------ product sync: POST
\* const { data: products, error: productsError } = ... .limit(5)
StartProductSync ==
  /\ BeginRun("products")
  /\ args' = NoArgs /\ syncResult' = NoResult
  /\ startDate' = NoDate /\ endDate' = NoDate
  /\ \E productsError \in BOOLEAN :
       /\ Budget(N(productsError))
       /\ lastStep' = [op |-> "tablecheck", reads |-> 1, writes |-> 0,
                       errs |-> IF productsError THEN {"productsError"} ELSE {}]
       /\ runClean' = ~productsError
       /\ wrote' = FALSE
       /\ errsLeft' = errsLeft - N(productsError)
       /\ IF productsError
          THEN pc' = "done" /\ response' = Failure(500)
          ELSE pc' = "fetch" /\ response' = NoResponse
  /\ \E connectionOk \in BOOLEAN :
       ~BeforeHandler(TRUE, connectionOk).thrown /\ connected' = connectionOk
  /\ UNCHANGED <<handlers, hooks, remote, store>>

\* one iteration of `while (hasNextPage)` of the product handler; `failed` is
\* any throw of shopifyGraphqlRequest (HTTP status not ok, GraphQL errors in
\* the body, network exception)
FetchProductsPage ==
  /\ kind = "products" /\ pc = "fetch" /\ WhileCondition
  /\ Len(requests) < MaxRequests
  /\ requests' = Append(requests, cursor)
  /\ \E failed \in BOOLEAN :
       IF failed
       THEN /\ pc' = CatchBlock.pc /\ response' = CatchBlock.response
            /\ UNCHANGED <<allProducts, hasNextPage, cursor, idx, served, waits>>
       ELSE LET result == RemotePage(remoteProducts, cursor) IN
            /\ allProducts' = allProducts \o result.records
            /\ hasNextPage' = result.hasNextPage
            /\ cursor' = OrUndefined(result.endCursor)
            /\ served' = Append(served, PageIndex(remoteProducts, cursor))
            /\ waits' = waits \o DelayAfter(hasNextPage', Len(requests'))
            /\ pc' = IF WhileCondition' THEN "fetch" ELSE "process"
            /\ idx' = IF WhileCondition' THEN idx ELSE 1
            /\ response' = NoResponse
  /\ lastStep' = [op |-> "fetch", reads |-> 0, writes |-> 0, errs |-> {}]
  /\ UNCHANGED <<handlers, hooks, remote, store, kind, allOrders, childIdx, syncedCount, productId, orderId,
                 customerId, startDate, endDate, runs, errsLeft, runClean, wrote, parentLog,
                 itemLog, prevEnd, call>>

\* if (!product.id || !product.title) continue
ProductIsValid(product) == product.id # "" /\ product.title # ""

\* where the product loop goes once the parent row is written
AfterVariants(product, i) ==
  IF Len(product.images) > 0 THEN <<"images", i, 1>> ELSE <<"process", i + 1, 0>>
AfterProduct(product, i) ==
  IF Len(product.variants) > 0 THEN <<"variants", i, 1>> ELSE AfterVariants(product, i)

\* const formattedProduct = { ... }; synced_at is the time of the run
FormattedProduct(product) ==
  [shopify_id |-> product.id,
   description |-> SafeString(product.description, JsUndefined),
   created_at |-> SafeDate(product.createdAt, JsUndefined),
   total_inventory |-> SafeNumber(product.totalInventory, Num(0)),
   price_min |-> SafeNumber(product.priceMin, Num(0)),
   synced_at |-> runs]

\* find the products row by shopify_id, then update it or insert a new one
UpsertProduct(product, checkFailed, out) ==
  LET existingProduct == MaybeSingle(ByShopifyId(products, product.id), checkFailed)
      formattedProduct == FormattedProduct(product)
  IN IF existingProduct.error
     THEN [table |-> products, id |-> Null, outcome |-> "checkError", writes |-> 0]
     ELSE IF existingProduct.data # Null
     THEN IF out = "error"
          THEN [table |-> products, id |-> Null, outcome |-> "updateError", writes |-> 0]
          ELSE [table |-> Update(products, existingProduct.data, formattedProduct),
                id |-> existingProduct.data, outcome |-> "updated", writes |-> 1]
     ELSE IF out = "error"
          THEN [table |-> products, id |-> Null, outcome |-> "insertError", writes |-> 0]
          ELSE IF out = "nodata"
          THEN [table |-> Insert(products, formattedProduct), id |-> Null,
                outcome |-> "noData", writes |-> 1]
          ELSE [table |-> Insert(products, formattedProduct), id |-> Len(products) + 1,
                outcome |-> "inserted", writes |-> 1]

Outcomes == {"ok", "error", "nodata"}

\* variant of Failed: the updateError branch lacks its `continue`
Failed_UpdateErrorCounted(outcome) == outcome \notin {"updated", "inserted", "updateError"}

\* the branches that `continue` to the next record before syncedCount++
Failed(outcome) == outcome \notin {"updated", "inserted"}

\* body of `for (const product of allProducts)` up to syncedCount++
ProcessProduct ==
  /\ kind = "products" /\ pc = "process" /\ idx <= Len(allProducts)
  /\ LET product == allProducts[idx] IN
     IF ~ProductIsValid(product)
     THEN /\ parentLog' = Append(parentLog, "invalid")
          /\ idx' = idx + 1
          /\ Log("product", 0, 0, {}, 0)
          /\ UNCHANGED <<products, pc, childIdx, syncedCount, productId>>
     ELSE \E checkFailed \in BOOLEAN, out \in Outcomes :
          LET r == UpsertProduct(product, checkFailed, out)
              next == AfterProduct(product, idx)
          IN /\ Budget(N(checkFailed) + N(out # "ok"))
             /\ (r.outcome = "checkError" => out = "ok")
             /\ (r.outcome = "updated" => out = "ok")
             /\ products' = r.table
             /\ parentLog' = Append(parentLog, r.outcome)
             /\ Log("product", 1, r.writes,
                    IF Failed(r.outcome) THEN {r.outcome} ELSE {},
                    N(checkFailed) + N(out # "ok"))
             /\ IF Failed(r.outcome)
                THEN /\ idx' = idx + 1
                     /\ UNCHANGED <<pc, childIdx, syncedCount, productId>>
                ELSE /\ productId' = r.id
                     /\ syncedCount' = syncedCount + 1
                     /\ pc' = next[1] /\ idx' = next[2] /\ childIdx' = next[3]
  /\ UNCHANGED <<handlers, hooks, remote, product_variants, product_images, orders, customers, addresses,
                 line_items, kind, hasNextPage, cursor, allProducts, allOrders, orderId,
                 customerId, startDate, endDate, response, runs, requests, served, itemLog,
                 prevEnd, waits, call>>

\* variant of UpsertChild: a failed write takes back the child written before it
UpsertChild_Rollback(table, rows, row, checkFailed, writeFailed) ==
  IF writeFailed THEN SubSeq(table, 1, Len(table) - 1)
  ELSE IF MaybeSingle(rows, checkFailed).data # Null
  THEN Update(table, MaybeSingle(rows, checkFailed).data, row)
  ELSE Insert(table, row)

\* child find-or-insert: the lookup's error is not examined (variants, images)
\* or only logged (line items), so a failed lookup falls through to insert
UpsertChild(table, rows, row, checkFailed, writeFailed) ==
  LET existing == MaybeSingle(rows, checkFailed).data
  IN IF writeFailed THEN table
     ELSE IF existing # Null THEN Update(table, existing, row)
     ELSE Insert(table, row)

ChildErrs(rows, checkFailed, writeFailed) ==
  (IF MaybeSingle(rows, checkFailed).error THEN {"checkError"} ELSE {})
    \cup (IF writeFailed THEN {"writeError"} ELSE {})

UpsertVariant(variant, checkFailed, writeFailed) ==
  UpsertChild(product_variants, ByShopifyId(product_variants, variant.id),
              [product_id |-> productId, shopify_id |-> variant.id,
               price |-> SafeNumber(variant.price, Num(0))],
              checkFailed, writeFailed)

UpsertImage(image, checkFailed, writeFailed) ==
  UpsertChild(product_images, ByShopifyId(product_images, image),
              [product_id |-> productId, shopify_id |-> image],
              checkFailed, writeFailed)

\* one iteration of `for (const variant of product.variants)`
ProcessVariant ==
  /\ kind = "products" /\ pc = "variants"
  /\ LET product == allProducts[idx]
         variant == product.variants[childIdx]
         next == IF childIdx < Len(product.variants)
                 THEN <<"variants", idx, childIdx + 1>>
                 ELSE AfterVariants(product, idx)
     IN /\ pc' = next[1] /\ idx' = next[2] /\ childIdx' = next[3]
        /\ IF variant.id = ""
           THEN /\ Log("variant", 0, 0, {}, 0)
                /\ UNCHANGED product_variants
           ELSE \E checkFailed, writeFailed \in BOOLEAN :
                /\ Budget(N(checkFailed) + N(writeFailed))
                /\ product_variants' = UpsertVariant(variant, checkFailed, writeFailed)
                /\ Log("variant", 1, N(~writeFailed),
                       ChildErrs(ByShopifyId(product_variants, variant.id), checkFailed,
                                 writeFailed),
                       N(checkFailed) + N(writeFailed))
  /\ UNCHANGED <<handlers, hooks, remote, products, product_images, orders, customers, addresses, line_items,
                 kind, hasNextPage, cursor, allProducts, allOrders, syncedCount, productId,
                 orderId, customerId, startDate, endDate, response, runs, requests, served, parentLog,
                 itemLog, prevEnd, waits, call>>

\* one iteration of `for (const image of product.images)`
ProcessImage ==
  /\ kind = "products" /\ pc = "images"
  /\ LET product == allProducts[idx]
         image == product.images[childIdx]
         next == IF childIdx < Len(product.images)
                 THEN <<"images", idx, childIdx + 1>>
                 ELSE <<"process", idx + 1, 0>>
     IN /\ pc' = next[1] /\ idx' = next[2] /\ childIdx' = next[3]
        /\ IF image = ""
           THEN /\ Log("image", 0, 0, {}, 0)
                /\ UNCHANGED product_images
           ELSE \E checkFailed, writeFailed \in BOOLEAN :
                /\ Budget(N(checkFailed) + N(writeFailed))
                /\ product_images' = UpsertImage(image, checkFailed, writeFailed)
                /\ Log("image", 1, N(~writeFailed),
                       ChildErrs(ByShopifyId(product_images, image), checkFailed, writeFailed),
                       N(checkFailed) + N(writeFailed))
  /\ UNCHANGED <<handlers, hooks, remote, products, product_variants, orders, customers, addresses, line_items,
                 kind, hasNextPage, cursor, allProducts, allOrders, syncedCount, productId,
                 orderId, customerId, startDate, endDate, response, runs, requests, served, parentLog,
                 itemLog, prevEnd, waits, call>>

\* final count query and the success response
FinishProductSync ==
  /\ kind = "products" /\ pc = "process" /\ idx > Len(allProducts)
  /\ \E finalCountError \in BOOLEAN :
       /\ Budget(N(finalCountError))
       /\ Log("count", 1, 0, IF finalCountError THEN {"finalCountError"} ELSE {},
              N(finalCountError))
       /\ response' = [success |-> TRUE, status |-> 200, count |-> Len(allProducts),
                       syncedCount |-> syncedCount,
                       databaseCount |-> IF finalCountError THEN ErrorCounting
                                         ELSE Len(products)]
  /\ pc' = "done"
  /\ UNCHANGED <<handlers, hooks, remote, store, kind, locals, runs, requests, served, parentLog, itemLog,
                 prevEnd, waits, call>>

\* ---------------------------------------------------- order sync: POST
\* the date arguments a caller passes to syncOrders
DateRanges ==
  {<<NoDate, NoDate>>, <<UndefinedDate, UndefinedDate>>, <<1, UndefinedDate>>,
   <<1, 2>>, <<2, 2>>}

\* variant of Truthy: only undefined counts as missing, '' passes
Truthy_NotUndefined(date) == date # UndefinedDate

\* a date string that is neither undefined nor ''
Truthy(date) == date # UndefinedDate /\ date # NoDate

\* `date || ''`
OrEmpty(date) == IF Truthy(date) THEN date ELSE NoDate

\* syncOrders(startDate?, endDate?): the dates handed to syncOrdersAction
SyncOrders(start, end) ==
  IF Truthy(start) /\ Truthy(end) THEN <<start, end>> ELSE <<OrEmpty(start), OrEmpty(end)>>

\* syncOrders -> syncOrdersAction -> callShopifySync -> POST:
\* const { startDate, endDate } = await request.json();
\* if (!startDate || !endDate) return 400
StartOrderSync ==
  /\ BeginRun("orders")
  /\ syncResult' = NoResult
  /\ \E range \in DateRanges :
       /\ args' = range
       /\ startDate' = SyncOrders(range[1], range[2])[1]
       /\ endDate' = SyncOrders(range[1], range[2])[2]
       /\ IF ~Truthy(startDate') \/ ~Truthy(endDate')
          THEN pc' = "done" /\ response' = Failure(400)
          ELSE pc' = "fetch" /\ response' = NoResponse
  /\ lastStep' = [op |-> "dates", reads |-> 0, writes |-> 0, errs |-> {}]
  /\ runClean' = TRUE /\ wrote' = FALSE /\ errsLeft' = errsLeft
  /\ \E connectionOk \in BOOLEAN :
       ~BeforeHandler(TRUE, connectionOk).thrown /\ connected' = connectionOk
  /\ UNCHANGED <<handlers, hooks, remote, store>>

\* one iteration of `while (hasNextPage)` of the order handler
FetchOrdersPage ==
  /\ kind = "orders" /\ pc = "fetch" /\ WhileCondition
  /\ Len(requests) < MaxRequests
  /\ requests' = Append(requests, cursor)
  /\ \E failed \in BOOLEAN :
       IF failed
       THEN /\ pc' = CatchBlock.pc /\ response' = CatchBlock.response
            /\ UNCHANGED <<allOrders, hasNextPage, cursor, idx, served, waits>>
       ELSE LET result == RemotePage(remoteOrders, cursor) IN
            /\ allOrders' = allOrders \o result.records
            /\ hasNextPage' = result.hasNextPage
            /\ cursor' = OrUndefined(result.endCursor)
            /\ served' = Append(served, PageIndex(remoteOrders, cursor))
            /\ waits' = waits \o DelayAfter(hasNextPage', Len(requests'))
            /\ pc' = IF WhileCondition' THEN "fetch" ELSE "process"
            /\ idx' = IF WhileCondition' THEN idx ELSE 1
            /\ response' = NoResponse
  /\ lastStep' = [op |-> "fetch", reads |-> 0, writes |-> 0, errs |-> {}]
  /\ UNCHANGED <<handlers, hooks, remote, store, kind, allProducts, childIdx, syncedCount, productId, orderId,
                 customerId, startDate, endDate, runs, errsLeft, runClean, wrote, parentLog,
                 itemLog, prevEnd, call>>

\* variant of OrderIsValid: processedAt is not required
OrderIsValid_NoDate(order) == order.id # "" /\ order.name # ""

\* if (!order.id || !order.name || !order.processedAt) continue
OrderIsValid(order) == order.id # "" /\ order.name # "" /\ order.processedAt # NoDate

\* where the order loop goes after each stage of one order
AfterBilling(order, i) ==
  IF Len(order.lineItems) > 0 THEN <<"items", i, 1>> ELSE <<"process", i + 1, 0>>
AfterShipping(order, i, cid) ==
  IF cid # Null /\ order.billingAddress THEN <<"billing", i, 0>> ELSE AfterBilling(order, i)

\* variant of AfterCustomer: the shipping address does not wait for customerId
AfterCustomer_Ungated(order, i, cid) ==
  IF order.shippingAddress THEN <<"shipping", i, 0>>
  ELSE AfterShipping(order, i, cid)

\* `if (customerId) { if (order.shippingAddress) ...`
AfterCustomer(order, i, cid) ==
  IF cid # Null /\ order.shippingAddress THEN <<"shipping", i, 0>>
  ELSE AfterShipping(order, i, cid)

AfterOrder(order, i) ==
  IF order.customer # "" THEN <<"customer", i, 0>> ELSE AfterBilling(order, i)

\* const formattedOrder = { ... }; created_at is safeDate(new Date())
FormattedOrder(order) ==
  [shopify_id |-> order.id,
   email |-> SafeString(order.email, JsUndefined),
   processed_at |-> order.processedAt,
   total_price |-> SafeNumber(order.totalPrice, Num(0)),
   synced_at |-> runs,
   created_at |-> SafeDate(DateOf(runs), JsUndefined)]

\* variant of UpsertOrder: no existence check, every order is inserted
UpsertOrder_NoLookup(order, checkFailed, out) ==
  LET formattedOrder == FormattedOrder(order)
  IN IF checkFailed
     THEN [table |-> orders, id |-> Null, outcome |-> "checkError", writes |-> 0]
     ELSE IF out = "error"
     THEN [table |-> orders, id |-> Null, outcome |-> "insertError", writes |-> 0]
     ELSE IF out = "nodata"
     THEN [table |-> Insert(orders, formattedOrder), id |-> Null,
           outcome |-> "noData", writes |-> 1]
     ELSE [table |-> Insert(orders, formattedOrder), id |-> Len(orders) + 1,
           outcome |-> "inserted", writes |-> 1]

\* find the orders row by shopify_id, then update it or insert a new one
UpsertOrder(order, checkFailed, out) ==
  LET existingOrder == MaybeSingle(ByShopifyId(orders, order.id), checkFailed)
      formattedOrder == FormattedOrder(order)
  IN IF existingOrder.error
     THEN [table |-> orders, id |-> Null, outcome |-> "checkError", writes |-> 0]
     ELSE IF existingOrder.data # Null
     THEN IF out = "error"
          THEN [table |-> orders, id |-> Null, outcome |-> "updateError", writes |-> 0]
          ELSE [table |-> Update(orders, existingOrder.data, formattedOrder),
                id |-> existingOrder.data, outcome |-> "updated", writes |-> 1]
     ELSE IF out = "error"
          THEN [table |-> orders, id |-> Null, outcome |-> "insertError", writes |-> 0]
          ELSE IF out = "nodata"
          THEN [table |-> Insert(orders, formattedOrder), id |-> Null,
                outcome |-> "noData", writes |-> 1]
          ELSE [table |-> Insert(orders, formattedOrder), id |-> Len(orders) + 1,
                outcome |-> "inserted", writes |-> 1]

\* body of `for (const order of allOrders)` up to syncedCount++
ProcessOrder ==
  /\ kind = "orders" /\ pc = "process" /\ idx <= Len(allOrders)
  /\ LET order == allOrders[idx] IN
     IF ~OrderIsValid(order)
     THEN /\ parentLog' = Append(parentLog, "invalid")
          /\ idx' = idx + 1
          /\ Log("order", 0, 0, {}, 0)
          /\ UNCHANGED <<orders, pc, childIdx, syncedCount, orderId>>
     ELSE \E checkFailed \in BOOLEAN, out \in Outcomes :
          LET r == UpsertOrder(order, checkFailed, out)
              next == AfterOrder(order, idx)
          IN /\ Budget(N(checkFailed) + N(out # "ok"))
             /\ (r.outcome = "checkError" => out = "ok")
             /\ (r.outcome = "updated" => out = "ok")
             /\ orders' = r.table
             /\ parentLog' = Append(parentLog, r.outcome)
             /\ Log("order", 1, r.writes,
                    IF Failed(r.outcome) THEN {r.outcome} ELSE {},
                    N(checkFailed) + N(out # "ok"))
             /\ IF Failed(r.outcome)
                THEN /\ idx' = idx + 1
                     /\ UNCHANGED <<pc, childIdx, syncedCount, orderId>>
                ELSE /\ orderId' = r.id
                     /\ syncedCount' = syncedCount + 1
                     /\ pc' = next[1] /\ idx' = next[2] /\ childIdx' = next[3]
  /\ UNCHANGED <<handlers, hooks, remote, products, product_variants, product_images, customers, addresses,
                 line_items, kind, hasNextPage, cursor, allProducts, allOrders, productId,
                 customerId, startDate, endDate, response, runs, requests, served, itemLog,
                 prevEnd, waits, call>>

\* customer find-or-insert; only a failed lookup leaves the order (`continue`),
\* a failed write leaves customerId undefined
UpsertCustomer(order, checkFailed, out) ==
  LET existingCustomer == MaybeSingle(ByShopifyId(customers, order.customer), checkFailed)
      formattedCustomer == [shopify_id |-> order.customer]
  IN IF existingCustomer.error
     THEN [table |-> customers, id |-> Null, outcome |-> "checkError", writes |-> 0]
     ELSE IF existingCustomer.data # Null
     THEN IF out = "error"
          THEN [table |-> customers, id |-> Null, outcome |-> "updateError", writes |-> 0]
          ELSE [table |-> Update(customers, existingCustomer.data, formattedCustomer),
                id |-> existingCustomer.data, outcome |-> "updated", writes |-> 1]
     ELSE IF out = "error"
          THEN [table |-> customers, id |-> Null, outcome |-> "insertError", writes |-> 0]
          ELSE IF out = "nodata"
          THEN [table |-> Insert(customers, formattedCustomer), id |-> Null,
                outcome |-> "noData", writes |-> 1]
          ELSE [table |-> Insert(customers, formattedCustomer), id |-> Len(customers) + 1,
                outcome |-> "inserted", writes |-> 1]

\* `if (order.customer && order.customer.id) { ... }` up to the address block
ProcessCustomer ==
  /\ kind = "orders" /\ pc = "customer"
  /\ LET order == allOrders[idx] IN
     \E checkFailed \in BOOLEAN, out \in Outcomes :
       LET r == UpsertCustomer(order, checkFailed, out)
           next == IF r.outcome = "checkError"
                   THEN <<"process", idx + 1, 0>>
                   ELSE AfterCustomer(order, idx, r.id)
       IN /\ Budget(N(checkFailed) + N(out # "ok"))
          /\ (r.outcome = "checkError" => out = "ok")
          /\ (r.outcome = "updated" => out = "ok")
          /\ customers' = r.table
          /\ customerId' = r.id
          /\ pc' = next[1] /\ idx' = next[2] /\ childIdx' = next[3]
          /\ Log("customer", 1, r.writes,
                 IF Failed(r.outcome) THEN {r.outcome} ELSE {},
                 N(checkFailed) + N(out # "ok"))
  /\ UNCHANGED <<handlers, hooks, remote, products, product_variants, product_images, orders, addresses,
                 line_items, kind, hasNextPage, cursor, allProducts, allOrders, syncedCount,
                 productId, orderId, startDate, endDate, response, runs, requests, served,
                 parentLog, itemLog, prevEnd, waits, call>>

\* rows selected by .eq('order_id', orderId).eq('address_type', type)
ByOrderAndType(type) ==
  {i \in 1..Len(addresses) :
     addresses[i].order_id = orderId /\ addresses[i].address_type = type}

UpsertAddress(type, checkFailed, writeFailed) ==
  UpsertChild(addresses, ByOrderAndType(type),
              [order_id |-> orderId, customer_id |-> customerId, address_type |-> type],
              checkFailed, writeFailed)

\* `if (order.shippingAddress) { ... }`
ProcessShippingAddress ==
  /\ kind = "orders" /\ pc = "shipping"
  /\ LET next == AfterShipping(allOrders[idx], idx, customerId) IN
     pc' = next[1] /\ idx' = next[2] /\ childIdx' = next[3]
  /\ \E checkFailed, writeFailed \in BOOLEAN :
       /\ Budget(N(checkFailed) + N(writeFailed))
       /\ addresses' = UpsertAddress("shipping", checkFailed, writeFailed)
       /\ Log("shipping", 1, N(~writeFailed),
              ChildErrs(ByOrderAndType("shipping"), checkFailed, writeFailed),
              N(checkFailed) + N(writeFailed))
  /\ UNCHANGED <<handlers, hooks, remote, products, product_variants, product_images, orders, customers,
                 line_items, kind, hasNextPage, cursor, allProducts, allOrders, syncedCount,
                 productId, orderId, customerId, startDate, endDate, response, runs,
                 requests, served, parentLog, itemLog, prevEnd, waits, call>>

\* `if (order.billingAddress) { ... }`
ProcessBillingAddress ==
  /\ kind = "orders" /\ pc = "billing"
  /\ LET next == AfterBilling(allOrders[idx], idx) IN
     pc' = next[1] /\ idx' = next[2] /\ childIdx' = next[3]
  /\ \E checkFailed, writeFailed \in BOOLEAN :
       /\ Budget(N(checkFailed) + N(writeFailed))
       /\ addresses' = UpsertAddress("billing", checkFailed, writeFailed)
       /\ Log("billing", 1, N(~writeFailed),
              ChildErrs(ByOrderAndType("billing"), checkFailed, writeFailed),
              N(checkFailed) + N(writeFailed))
  /\ UNCHANGED <<handlers, hooks, remote, products, product_variants, product_images, orders, customers,
                 line_items, kind, hasNextPage, cursor, allProducts, allOrders, syncedCount,
                 productId, orderId, customerId, startDate, endDate, response, runs,
                 requests, served, parentLog, itemLog, prevEnd, waits, call>>

\* variant of LookupId: the reference is never resolved
LookupId_Unresolved(table, key, failed) == Null

\* internal id of the row with this shopify_id: undefined for an empty id,
\* a failed lookup or no row
LookupId(table, key, failed) ==
  IF key = "" THEN Null ELSE MaybeSingle(ByShopifyId(table, key), failed).data

LookupErrs(table, key, failed, name) ==
  IF key # "" /\ MaybeSingle(ByShopifyId(table, key), failed).error THEN {name} ELSE {}

\* variant of LineItemIsValid: the id check is missing
LineItemIsValid_Any(lineItem) == TRUE

\* if (!lineItem.id) continue
LineItemIsValid(lineItem) == lineItem.id # ""

\* the line-item loop moves to the next item, the order loop to the next order
AfterLineItem(order, i, j) ==
  IF j < Len(order.lineItems) THEN <<"items", i, j + 1>> ELSE <<"process", i + 1, 0>>

UpsertLineItem(lineItem, productFailed, variantFailed, checkFailed, writeFailed) ==
  UpsertChild(line_items, ByShopifyId(line_items, lineItem.id),
              [order_id |-> orderId, shopify_id |-> lineItem.id,
               quantity |-> SafeNumber(lineItem.quantity, Num(0)),
               price |-> SafeNumber(lineItem.price, Num(0)),
               product_id |-> LookupId(products, lineItem.product, productFailed),
               variant_id |-> LookupId(product_variants, lineItem.variant, variantFailed)],
              checkFailed, writeFailed)

\* one iteration of `for (const lineItem of order.lineItems)`
ProcessLineItem ==
  /\ kind = "orders" /\ pc = "items"
  /\ LET order == allOrders[idx]
         lineItem == order.lineItems[childIdx]
         next == AfterLineItem(order, idx, childIdx)
     IN /\ pc' = next[1] /\ idx' = next[2] /\ childIdx' = next[3]
        /\ itemLog' = itemLog \cup {<<idx, childIdx>>}
        /\ IF ~LineItemIsValid(lineItem)
           THEN /\ Log("item", 0, 0, {}, 0)
                /\ UNCHANGED line_items
           ELSE \E productFailed, variantFailed, checkFailed, writeFailed \in BOOLEAN :
                LET injected == N(productFailed) + N(variantFailed) + N(checkFailed)
                                  + N(writeFailed)
                IN /\ Budget(injected)
                   /\ (productFailed => lineItem.product # "")
                   /\ (variantFailed => lineItem.variant # "")
                   /\ line_items' = UpsertLineItem(lineItem, productFailed, variantFailed,
                                                   checkFailed, writeFailed)
                   /\ Log("item",
                          1 + N(lineItem.product # "") + N(lineItem.variant # ""),
                          N(~writeFailed),
                          LookupErrs(products, lineItem.product, productFailed, "productError")
                            \cup LookupErrs(product_variants, lineItem.variant, variantFailed,
                                            "variantError")
                            \cup ChildErrs(ByShopifyId(line_items, lineItem.id), checkFailed,
                                           writeFailed),
                          injected)
  /\ UNCHANGED <<handlers, hooks, remote, products, product_variants, product_images, orders, customers,
                 addresses, kind, hasNextPage, cursor, allProducts, allOrders, syncedCount,
                 productId, orderId, customerId, startDate, endDate, response, runs,
                 requests, served, parentLog, prevEnd, waits, call>>

\* variant of InPeriod: the count query has no date filter
InPeriod_Any(row) == TRUE

\* .gte('processed_at', startDate).lte('processed_at', endDate)
InPeriod(row) == row.processed_at >= startDate /\ row.processed_at <= endDate

\* final count of orders in the date range and the success response
FinishOrderSync ==
  /\ kind = "orders" /\ pc = "process" /\ idx > Len(allOrders)
  /\ \E finalCountError \in BOOLEAN :
       /\ Budget(N(finalCountError))
       /\ Log("count", 1, 0, IF finalCountError THEN {"finalCountError"} ELSE {},
              N(finalCountError))
       /\ response' = [success |-> TRUE, status |-> 200, count |-> Len(allOrders),
                       syncedCount |-> syncedCount,
                       databaseCount |->
                         IF finalCountError THEN ErrorCounting
                         ELSE Cardinality({i \in 1..Len(orders) : InPeriod(orders[i])})]
  /\ pc' = "done"
  /\ UNCHANGED <<handlers, hooks, remote, store, kind, locals, runs, requests, served, parentLog, itemLog,
                 prevEnd, waits, call>>

\* ------------------------------------------- server action and service
\* handleApiResponse: `if (!response.ok) throw`, else the body
HandleApiResponse(res) ==
  IF res.status >= 200 /\ res.status < 300 THEN Returned(res) ELSE Thrown

\* the handler's body as callShopifySync gets it: `await result.json()` on the
\* direct path, fetch and handleApiResponse on the HTTP path
ResponseData(via, fetchError, res) ==
  IF via = "direct" THEN Returned(res)
  ELSE IF fetchError THEN Thrown
  ELSE HandleApiResponse(res)

\* `responseData.success || true`
OrTrue(success) == IF success THEN success ELSE TRUE

\* `responseData.count || 0`; a body without count reads as Null
OrZero(count) == IF count # Null THEN count ELSE 0

\* `revalidatePath(pathToRevalidate)` is reached only when nothing threw; the
\* value callShopifySync returns is built from the body, or by its catch
CallShopifySync(responseData) ==
  IF responseData.thrown THEN SyncResponse(FALSE, 0, TRUE)
  ELSE SyncResponse(OrTrue(responseData.data.success), OrZero(responseData.data.count),
                    FALSE)

\* shopifyService.syncProducts / syncOrders: the action's value, or the catch
\* value when awaiting the action rejects
ShopifyService(rejected, value) ==
  IF rejected THEN SyncResponse(FALSE, 0, TRUE) ELSE value

\* a call that ends before the handler is invoked: no endpoint, or
\* testShopifyConnection throws
CallShopifySyncFails ==
  /\ BeginRun("none")
  /\ pc' = "returned" /\ response' = NoResponse
  /\ args' = NoArgs
  /\ startDate' = NoDate /\ endDate' = NoDate
  /\ \E endpointDefined, connectionOk \in BOOLEAN :
       /\ BeforeHandler(endpointDefined, connectionOk).thrown
       /\ connected' = (endpointDefined /\ connectionOk)
       /\ syncResult' = ShopifyService(FALSE,
                          CallShopifySync(BeforeHandler(endpointDefined, connectionOk)))
  /\ lastStep' = [op |-> "connection", reads |-> 0, writes |-> 0, errs |-> {}]
  /\ runClean' = TRUE /\ wrote' = FALSE /\ errsLeft' = errsLeft
  /\ UNCHANGED <<handlers, hooks, remote, store>>

\* the handler has responded: callShopifySync builds its result and the
\* service hands it to the caller
CallShopifySyncReturns ==
  /\ pc = "done"
  /\ pc' = "returned"
  /\ \E via \in {"direct", "http"}, fetchError, rejected \in BOOLEAN :
       /\ (fetchError => via = "http")
       /\ (rejected => ~fetchError)
       /\ syncResult' = ShopifyService(rejected,
                                       CallShopifySync(ResponseData(via, fetchError, response)))
       /\ revalidated' = IF ResponseData(via, fetchError, response).thrown THEN {}
                         ELSE {PathToRevalidate(kind)}
  /\ UNCHANGED <<handlers, hooks, remote, store, kind, locals, response, runs, errsLeft, history, args,
                 listing, connected>>

\* ------------------------------------------------- orders listing: GET
\* instants are seconds; an order row's processed_at is 00:00:00Z of its day
SecondsPerDay == 86400
DefaultPage == 1
DefaultLimit == 20

\* new Date(`${date}T00:00:00Z`)
StartOfDay(date) == date * SecondsPerDay

\* new Date(`${startDate}T00:00:00Z`).toISOString().split('T')[0]
UtcStartDate(start) == StartOfDay(start)

\* new Date(`${endDate}T23:59:59Z`), then setDate(getDate() + 1)
FullEndDate(end) == (StartOfDay(end) + SecondsPerDay - 1) + SecondsPerDay

ProcessedAt(row) == StartOfDay(row.processed_at)

\* the date filter of the query: both dates, the start only, the end only, none
DateFilter(row, start, end) ==
  IF start # NoDate /\ end # NoDate
  THEN ProcessedAt(row) >= UtcStartDate(start) /\ ProcessedAt(row) < FullEndDate(end)
  ELSE IF start # NoDate THEN ProcessedAt(row) >= UtcStartDate(start)
  ELSE IF end # NoDate THEN ProcessedAt(row) < FullEndDate(end)
  ELSE TRUE

\* .order('processed_at', { ascending: false }): rows that come before row i
Before(matching, i) ==
  {j \in matching : \/ orders[j].processed_at > orders[i].processed_at
                    \/ (orders[j].processed_at = orders[i].processed_at /\ j < i)}

\* .range(from, to) with from = (page - 1) * limit and to = from + limit - 1
PageOf(matching, page, limit) ==
  {i \in matching : /\ Cardinality(Before(matching, i)) >= (page - 1) * limit
                    /\ Cardinality(Before(matching, i)) <= (page - 1) * limit + limit - 1}

ListRanges ==
  {<<1, 1>>, <<1, 2>>, <<1, NoDate>>, <<NoDate, 2>>, <<NoDate, NoDate>>}

\* GET /api/supabase/orders?startDate=..&endDate=.. with the other
\* parameters at their defaults; a failed query is thrown and answered 500
ListOrders ==
  /\ pc \in {"idle", "returned"}
  /\ \E range \in ListRanges, ordersError \in BOOLEAN :
       LET matching == {i \in 1..Len(orders) : DateFilter(orders[i], range[1], range[2])}
       IN listing' = IF ordersError THEN Listing(500, <<NoDate, NoDate>>, {}, 0)
                     ELSE Listing(200, range, PageOf(matching, DefaultPage, DefaultLimit),
                                  Cardinality(matching))
  /\ UNCHANGED <<handlers, hooks, remote, store, kind, pc, locals, response, runs, errsLeft, history, args,
                 syncResult, connected, revalidated>>

\* ----------------------------------------- handlers running concurrently
\* Two requests to the same sync endpoint are served by the same process; each
\* `await` of a handler is a point where the other handler may run.  The steps
\* below are the parent-row awaits of the two loops; the child steps between
\* them write other tables and are left out.
RECURSIVE FetchedFrom(_, _)
FetchedFrom(catalog, after) ==
  LET result == RemotePage(catalog, after)
  IN IF result.hasNextPage
     THEN result.records \o FetchedFrom(catalog, OrUndefined(result.endCursor))
     ELSE result.records

\* allProducts / allOrders of a handler once its page loop has ended
Fetched(k) ==
  IF k = "products" THEN FetchedFrom(remoteProducts, Undefined)
  ELSE FetchedFrom(remoteOrders, Undefined)

RecordIsValid(k, record) ==
  IF k = "products" THEN ProductIsValid(record) ELSE OrderIsValid(record)

ParentTable(k) == IF k = "products" THEN products ELSE orders

FormattedRecord(k, record) ==
  IF k = "products" THEN FormattedProduct(record) ELSE FormattedOrder(record)

\* a handler is invoked and fetches every page; the handlers that run at the
\* same time serve the same endpoint
HandlerStart(h) ==
  /\ handlers[h].pc = "idle"
  /\ \E k \in Hooks :
       /\ \A g \in Handlers : handlers[g].kind \in {"none", k}
       /\ handlers' = [handlers EXCEPT ![h] = [pc |-> "check", kind |-> k, idx |-> 1,
                                               existing |-> Null]]
  /\ UNCHANGED <<remote, store, kind, pc, locals, response, runs, errsLeft, history, call,
                 hooks>>

\* `await supabaseAdmin.from(..).select('id').eq('shopify_id', id).maybeSingle()`
\* of the record at idx; an invalid record or a failed lookup is skipped
HandlerCheck(h) ==
  LET self == handlers[h]
      all == Fetched(self.kind)
  IN /\ self.pc = "check" /\ self.idx <= Len(all)
     /\ LET record == all[self.idx]
            existing == MaybeSingle(ByShopifyId(ParentTable(self.kind), record.id), FALSE)
        IN handlers' = [handlers EXCEPT ![h] =
             IF ~RecordIsValid(self.kind, record) \/ existing.error
             THEN [self EXCEPT !.idx = self.idx + 1]
             ELSE [self EXCEPT !.pc = "write", !.existing = existing.data]]
     /\ UNCHANGED <<remote, store, kind, pc, locals, response, runs, errsLeft, history, call,
                    hooks>>

\* `if (existing) await update(..).eq('id', existing.id) else await insert(..)`
HandlerWrite(h) ==
  LET self == handlers[h]
      record == Fetched(self.kind)[self.idx]
      row == FormattedRecord(self.kind, record)
      table == IF self.existing # Null THEN Update(ParentTable(self.kind), self.existing, row)
               ELSE Insert(ParentTable(self.kind), row)
  IN /\ self.pc = "write"
     /\ IF self.kind = "products"
        THEN products' = table /\ UNCHANGED orders
        ELSE orders' = table /\ UNCHANGED products
     /\ handlers' = [handlers EXCEPT ![h] =
                       [self EXCEPT !.pc = "check", !.idx = self.idx + 1, !.existing = Null]]
     /\ UNCHANGED <<remote, product_variants, product_images, customers, addresses,
                    line_items, kind, pc, locals, response, runs, errsLeft, history, call,
                    hooks>>

\* the loop has ended and the handler responds
HandlerDone(h) ==
  LET self == handlers[h]
  IN /\ self.pc = "check" /\ self.idx > Len(Fetched(self.kind))
     /\ handlers' = [handlers EXCEPT ![h] = [self EXCEPT !.pc = "done"]]
     /\ UNCHANGED <<remote, store, kind, pc, locals, response, runs, errsLeft, history, call,
                    hooks>>

\* --------------------------------- useProductSync / useOrderSync (hooks)
\* the values shopifyService resolves with
Counted == 0..1
ServiceResults ==
  {ShopifyService(rejected, SyncResponse(success, count, ~success)) :
     rejected \in BOOLEAN, success \in BOOLEAN, count \in Counted}

\* onMutate: setSyncState({ status: 'loading', count: 0 })
OnMutate == SyncStateOf("loading", 0)

\* onSuccess: setSyncState({ status: data.success ? 'success' : 'error', count: data.count })
OnSuccess(data) == SyncStateOf(IF data.success THEN "success" ELSE "error", data.count)

\* onError: setSyncState({ status: 'error', count: 0 })
OnError == SyncStateOf("error", 0)

Pending(h) == {m \in 1..Len(mutations[h]) : ~mutations[h][m].settled}

\* syncProducts() / syncOrders({..}): mutate() starts a call of the service and
\* runs onMutate
Mutate(h) ==
  /\ Len(mutations[h]) < MaxMutations
  /\ mutations' = [mutations EXCEPT ![h] = Append(@, NoResult)]
  /\ syncState' = [syncState EXCEPT ![h] = OnMutate]
  /\ UNCHANGED <<remote, store, kind, pc, locals, response, runs, errsLeft, history, call,
                 handlers>>

\* syncAll: syncProducts(); syncOrders({ startDate, endDate })
SyncAll ==
  /\ \A h \in Hooks : Len(mutations[h]) < MaxMutations
  /\ mutations' = [h \in Hooks |-> Append(mutations[h], NoResult)]
  /\ syncState' = [h \in Hooks |-> OnMutate]
  /\ UNCHANGED <<remote, store, kind, pc, locals, response, runs, errsLeft, history, call,
                 handlers>>

\* a call of the service settles: the hook's onSuccess runs with its value, or
\* onError when the call rejected; the handlers given to useMutation run for
\* every mutate call, also when a later call is still in flight
Settle(h) ==
  /\ \E m \in Pending(h), rejected \in BOOLEAN, data \in ServiceResults :
       /\ mutations' = [mutations EXCEPT ![h][m] = IF rejected THEN SyncResponse(FALSE, 0, TRUE)
                                                   ELSE data]
       /\ syncState' = [syncState EXCEPT ![h] = IF rejected THEN OnError ELSE OnSuccess(data)]
  /\ UNCHANGED <<remote, store, kind, pc, locals, response, runs, errsLeft, history, call,
                 handlers>>

\* ------------------------------------------------------- specification
Next ==
  \/ CallShopifySyncFails
  \/ CallShopifySyncReturns
  \/ StartProductSync
  \/ FetchProductsPage
  \/ ProcessProduct
  \/ ProcessVariant
  \/ ProcessImage
  \/ FinishProductSync
  \/ StartOrderSync
  \/ FetchOrdersPage
  \/ ProcessOrder
  \/ ProcessCustomer
  \/ ProcessShippingAddress
  \/ ProcessBillingAddress
  \/ ProcessLineItem
  \/ FinishOrderSync

Spec == Init /\ [][Next]_vars

\* the listing endpoint next to syncs that meet no database error
InitListing == InitWith(0)
NextListing == Next \/ ListOrders
SpecListing == InitListing /\ [][NextListing]_vars

\* handlers whose awaits interleave, over a store that meets no database error
InitConcurrent == InitWith(0)
NextConcurrent ==
  \E h \in Handlers : HandlerStart(h) \/ HandlerCheck(h) \/ HandlerWrite(h) \/ HandlerDone(h)
SpecConcurrent == InitConcurrent /\ [][NextConcurrent]_vars

\* the hooks of the sync page
InitHooks == InitWith(0)
NextHooks == SyncAll \/ \E h \in Hooks : Mutate(h) \/ Settle(h)
SpecHooks == InitHooks /\ [][NextHooks]_vars

\* ------------------------------------------------------------ properties
\* the accumulator and the remote result set of the handler that is running
Acc == IF kind = "products" THEN allProducts ELSE allOrders
Catalog == IF kind = "products" THEN remoteProducts ELSE remoteOrders

Synced == {"updated", "inserted"}
Ended == pc \in {"done", "returned"}
Completed == Ended /\ response.success

OneRowPerId(table) ==
  \A i, j \in 1..Len(table) : table[i].shopify_id = table[j].shopify_id => i = j

\* C1: after any sequence of sequential sync runs, database errors included,
\* each of products, product_variants, product_images, orders, customers and
\* line_items holds at most one row per distinct shopify id.
C1_OneRowPerExternalId ==
  /\ OneRowPerId(products) /\ OneRowPerId(product_variants) /\ OneRowPerId(product_images)
  /\ OneRowPerId(orders) /\ OneRowPerId(customers) /\ OneRowPerId(line_items)

\* C2: a sync that follows a sync of the same kind over the same remote data,
\* neither run meeting a database error, leaves every table's row count equal
\* to its count after the first run.
C2_SecondRunKeepsCounts ==
  (Completed /\ runClean /\ prevEnd.kind = kind /\ prevEnd.clean)
    => Counts = prevEnd.counts

C2_Witness ==
  /\ Completed /\ runClean /\ kind = "orders" /\ prevEnd.kind = "orders" /\ prevEnd.clean
  /\ Len(orders) > 0 /\ Len(customers) > 0 /\ Len(addresses) > 0 /\ Len(line_items) > 0

\* C3: in the order sync a database error on a child record (customer, address,
\* line item) never keeps the remaining children of that order, its line items
\* in particular, nor the later orders of the batch from being processed.
C3_ChildErrorContained ==
  (Completed /\ kind = "orders") =>
    /\ Len(parentLog) = Len(allOrders)
    /\ \A i \in 1..Len(allOrders) :
         parentLog[i] \in Synced =>
           \A j \in 1..Len(allOrders[i].lineItems) : <<i, j>> \in itemLog

\* C4: a line item without an id is skipped: the step writes no row, the
\* parent order row stays, and the loop goes on with the next line item of the
\* same order.
C4_MissingIdSkipped ==
  [][(kind = "orders" /\ pc = "items" /\ allOrders[idx].lineItems[childIdx].id = "")
       => /\ line_items' = line_items
          /\ orders' = orders
          /\ <<idx, childIdx>> \in itemLog'
          /\ (childIdx < Len(allOrders[idx].lineItems)
                => pc' = "items" /\ idx' = idx /\ childIdx' = childIdx + 1 /\ orderId' = orderId)
          /\ (childIdx = Len(allOrders[idx].lineItems)
                => pc' = "process" /\ idx' = idx + 1)]_vars

C4_Witness ==
  /\ kind = "orders"
  /\ \E i \in 1..Len(allOrders) :
       /\ \E o \in 1..Len(orders) : orders[o].shopify_id = allOrders[i].id
       /\ \E j, k \in 1..Len(allOrders[i].lineItems) :
            /\ j < k /\ <<i, j>> \in itemLog /\ <<i, k>> \in itemLog
            /\ allOrders[i].lineItems[j].id = ""
            /\ allOrders[i].lineItems[k].id # ""
            /\ \E r \in 1..Len(line_items) :
                 line_items[r].shopify_id = allOrders[i].lineItems[k].id

\* C5: a page request that fails ends the run at once with success=false and
\* status 500; the request is not repeated, no further page is requested and
\* the run has written no row, the records of earlier pages included.
C5_FetchFailureAborts ==
  Len(requests) > Len(served) =>
    /\ Ended
    /\ response.success = FALSE /\ response.status = 500
    /\ Len(requests) = Len(served) + 1
    /\ ~wrote
    /\ \A i \in 1..Len(products) : products[i].synced_at # runs
    /\ \A i \in 1..Len(orders) : orders[i].synced_at # runs

C5_Witness ==
  /\ Len(requests) > Len(served) /\ Len(served) >= 1 /\ Len(Acc) > 0
  /\ Ended

\* index of the first page of the result set that reports hasNextPage=false
FirstLastPage(catalog) ==
  CHOOSE k \in 1..Len(catalog) :
    /\ ~catalog[k].hasNextPage
    /\ \A j \in 1..(k - 1) : catalog[j].hasNextPage

\* C6: the fetch loop issues exactly k page requests, k the index of the first
\* response with hasNextPage=false, and issues none after that response.
C6_PagesRequested ==
  kind # "none" =>
    /\ Len(requests) <= FirstLastPage(Catalog)
    /\ (pc \notin {"idle", "fetch", "done", "returned"} \/ Completed)
         => /\ Len(requests) = FirstLastPage(Catalog)
            /\ Len(served) = FirstLastPage(Catalog)

C6_Witness ==
  /\ pc = "process" /\ Len(requests) = 2 /\ Len(Catalog) = 3
  /\ ~Catalog[2].hasNextPage

RECURSIVE RecordsOfPages(_, _)
RecordsOfPages(catalog, n) ==
  IF n = 0 THEN <<>> ELSE RecordsOfPages(catalog, n - 1) \o catalog[n].records

\* C7: the first request carries no cursor, each later one the endCursor of the
\* response before it; no page is served twice and the accumulator holds the
\* records of the pages fetched, each once and in order.
C7_CursorChain ==
  kind # "none" =>
    /\ (Len(requests) > 0 => requests[1] = Undefined)
    /\ \A i \in 2..Len(requests) :
         /\ i - 1 <= Len(served)
         /\ served[i - 1] <= Len(Catalog)
         /\ requests[i] = Catalog[served[i - 1]].endCursor
    /\ \A i, j \in 1..Len(served) : served[i] = served[j] => i = j
    /\ \A i \in 1..Len(served) : served[i] = i
    /\ Acc = RecordsOfPages(Catalog, Len(served))

C7_Witness ==
  /\ pc = "process" /\ Len(requests) = 3 /\ Len(served) = 3
  /\ requests[2] = "k1" /\ requests[3] = "k2" /\ Len(Acc) = 4

C9_SyncedCountsWrittenRows ==
  Completed =>
    /\ response.syncedCount
         = Cardinality({i \in 1..Len(parentLog) : parentLog[i] \in Synced \cup {"noData"}})
    /\ response.syncedCount <= response.count

\* C9 as amended: syncedCount is the number of records whose parent row was
\* updated, or inserted with the inserted row returned; every other record is
\* skipped and the loop goes on, so syncedCount <= count, and syncedCount <
\* count once a record was skipped.
C9_SyncedCount ==
  Completed =>
    /\ Len(parentLog) = response.count
    /\ response.count = Len(Acc)
    /\ response.syncedCount
         = Cardinality({i \in 1..Len(parentLog) : parentLog[i] \in Synced})
    /\ response.syncedCount <= response.count
    /\ ((\E i \in 1..Len(parentLog) : parentLog[i] \notin Synced)
          => response.syncedCount < response.count)

C9_Witness ==
  /\ Completed
  /\ \E i, j \in 1..Len(parentLog) : parentLog[i] = "noData" /\ parentLog[j] \in Synced
  /\ response.syncedCount < response.count

\* C10: an order without id, name or processedAt, and a product without id or
\* title, is passed over: no database call, no row changed, syncedCount kept,
\* none of its children visited, and the loop goes on with the next record.
Lacking(record) ==
  IF kind = "orders"
  THEN record.id = "" \/ record.name = "" \/ record.processedAt = NoDate
  ELSE record.id = "" \/ record.title = ""

C10_InvalidRecordSkipped ==
  [][(pc = "process" /\ idx <= Len(Acc) /\ Lacking(Acc[idx]))
       => /\ store' = store
          /\ lastStep'.reads = 0 /\ lastStep'.writes = 0
          /\ syncedCount' = syncedCount
          /\ pc' = "process" /\ idx' = idx + 1]_vars

C10_Witness ==
  /\ kind = "orders"
  /\ \E i, j \in 1..Len(parentLog) :
       /\ i < j /\ Lacking(allOrders[i]) /\ parentLog[i] = "invalid"
       /\ parentLog[j] \in Synced

\* the parent step found-or-inserted `record`: an existing row keeps its
\* position and no row is added, otherwise one row is appended; `id` is the key
\* the handler keeps for the children
UpsertedInPlace(before, after, record, id) ==
  LET existing == {i \in 1..Len(before) : before[i].shopify_id = record.id}
  IN /\ IF existing # {}
        THEN Len(after) = Len(before) /\ id \in existing
        ELSE Len(after) = Len(before) + 1 /\ id = Len(after)
     /\ after[id].shopify_id = record.id
     /\ \A i \in 1..Len(before) : i # id => after[i] = before[i]

\* the row a child step wrote: the appended one, or the one it matched
WrittenRow(before, after, matching) ==
  IF Len(after) > Len(before) THEN Len(after) ELSE CHOOSE r \in matching : TRUE

\* C11: a valid parent record whose lookup and write succeed updates the row
\* with its external id in place (same internal key, no row added) when there
\* is one and inserts exactly one row otherwise; the key of that row is the
\* foreign key of every child row the run then writes for the record.
C11_UpsertKeepsKey ==
  [][/\ (pc = "process" /\ idx <= Len(Acc) /\ ~Lacking(Acc[idx]) /\ lastStep'.errs = {})
          => IF kind = "products"
             THEN UpsertedInPlace(products, products', Acc[idx], productId')
             ELSE UpsertedInPlace(orders, orders', Acc[idx], orderId')
     /\ (pc = "variants" /\ lastStep'.writes = 1)
          => LET variant == allProducts[idx].variants[childIdx]
                 r == WrittenRow(product_variants, product_variants',
                                 ByShopifyId(product_variants, variant.id))
             IN /\ product_variants'[r].shopify_id = variant.id
                /\ product_variants'[r].product_id = productId
                /\ products[productId].shopify_id = allProducts[idx].id
     /\ (pc = "images" /\ lastStep'.writes = 1)
          => LET image == allProducts[idx].images[childIdx]
                 r == WrittenRow(product_images, product_images',
                                 ByShopifyId(product_images, image))
             IN /\ product_images'[r].shopify_id = image
                /\ product_images'[r].product_id = productId
                /\ products[productId].shopify_id = allProducts[idx].id
     /\ (pc \in {"shipping", "billing"} /\ lastStep'.writes = 1)
          => LET r == WrittenRow(addresses, addresses', ByOrderAndType(pc))
             IN /\ addresses'[r].address_type = pc
                /\ addresses'[r].order_id = orderId
                /\ orders[orderId].shopify_id = allOrders[idx].id
     /\ (pc = "items" /\ lastStep'.writes = 1)
          => LET lineItem == allOrders[idx].lineItems[childIdx]
                 r == WrittenRow(line_items, line_items',
                                 ByShopifyId(line_items, lineItem.id))
             IN /\ line_items'[r].shopify_id = lineItem.id
                /\ line_items'[r].order_id = orderId
                /\ orders[orderId].shopify_id = allOrders[idx].id]_vars

C11_Witness ==
  /\ kind = "orders" /\ runs = 2
  /\ \E i, k \in 1..Len(parentLog) :
       /\ parentLog[i] = "updated" /\ parentLog[k] = "inserted"
       /\ \E j \in 1..Len(allOrders[i].lineItems) :
            /\ <<i, j>> \in itemLog
            /\ \E r \in 1..Len(line_items) :
                 /\ line_items[r].shopify_id = allOrders[i].lineItems[j].id
                 /\ orders[line_items[r].order_id].shopify_id = allOrders[i].id
                 /\ orders[line_items[r].order_id].synced_at = runs

ChildSteps == {"variants", "images", "customer", "shipping", "billing", "items"}
WriteErrs == {"writeError", "insertError", "updateError"}

\* no row of `before` is missing from `after`
RowsKept(before, after) ==
  /\ Len(after) >= Len(before)
  /\ \A i \in 1..Len(before) : after[i].shopify_id = before[i].shopify_id

\* C12: a child write that fails after the parent row was written changes no
\* row (the parent and the children written before stay), leaves the record
\* counted and the loop running; no step of the processing phase removes a row,
\* and the phase can only end with success=true and the count kept.
C12_NoRollback ==
  [][/\ (pc \in ChildSteps /\ lastStep'.errs \cap WriteErrs # {})
          => /\ store' = store
             /\ parentLog' = parentLog /\ parentLog[idx] \in Synced
             /\ syncedCount' = syncedCount
             /\ pc' \in ChildSteps \cup {"process"}
     /\ (pc \in ChildSteps \cup {"process"})
          => /\ RowsKept(products, products') /\ RowsKept(product_variants, product_variants')
             /\ RowsKept(product_images, product_images') /\ RowsKept(orders, orders')
             /\ RowsKept(customers, customers') /\ RowsKept(line_items, line_items')
             /\ Len(addresses') >= Len(addresses)
             /\ syncedCount' >= syncedCount
             /\ (pc' = "done"
                   => /\ response'.success /\ response'.status = 200
                      /\ response'.syncedCount = syncedCount)]_vars

\* a completed run that left an order with one line item written and another,
\* whose write failed, missing
C12_Witness ==
  /\ Completed /\ kind = "orders" /\ ~runClean
  /\ \E i \in 1..Len(allOrders) :
       /\ parentLog[i] \in Synced
       /\ response.syncedCount >= 1
       /\ \E o \in 1..Len(orders) : orders[o].shopify_id = allOrders[i].id
       /\ \E j, k \in 1..Len(allOrders[i].lineItems) :
            /\ j < k /\ <<i, j>> \in itemLog /\ <<i, k>> \in itemLog
            /\ allOrders[i].lineItems[j].id # "" /\ allOrders[i].lineItems[k].id # ""
            /\ \E r \in 1..Len(line_items) :
                 line_items[r].shopify_id = allOrders[i].lineItems[j].id
            /\ \A r \in 1..Len(line_items) :
                 line_items[r].shopify_id # allOrders[i].lineItems[k].id

\* what safeNumber is to return, in hundredths, for the values the remote
\* records carry in their number fields
NumberCases ==
  { <<JsNull, 0>>, <<JsUndefined, 0>>, <<NaN, 0>>,
    <<Num(100), 100>>, <<Num(200), 200>>, <<Num(500), 500>>,
    <<Str(<<"1", "9", ".", "9", "9">>), 1999>>, <<Str(<<"1", "2", ".", "5", "u">>), 1250>>,
    <<Str(<<"-", "3">>), 0 - 300>>, <<Str(<<" ", "7">>), 700>>,
    <<Str(<<"x">>), 0>>, <<Str(<<>>), 0>> }

Expected(value) == (CHOOSE c \in NumberCases : c[1] = value)[2]

IsNumber(value) == value.t = "number"

\* safeNumber on each of the cases
SafeNumberCases ==
  \A c \in NumberCases :
    /\ SafeNumber(c[1], Num(0)) = Num(c[2])
    /\ (c[1].t \in {"null", "undefined", "nan"} => SafeNumber(c[1], Num(0)) = Num(0))
    /\ (c[1].t = "number" => SafeNumber(c[1], Num(0)) = c[1])

\* the remote records the result sets are made of, and their variants
SampleProducts == {prodA, prodNoTitle, prodNoId, prodB}
SampleOrders == {ordA, ordNoName, ordNoId, ordNoDate, ordB}
SampleVariants == UNION {{p.variants[k] : k \in 1..Len(p.variants)} : p \in SampleProducts}

\* C13: safeNumber gives 0 for null, undefined and whatever parses to NaN and
\* the number otherwise; every price, quantity and inventory column of every
\* row is a number; a variant without a price is stored with price 0, and a
\* product run without a database error stores every variant that has an id.
C13_SafeNumber ==
  /\ SafeNumberCases
  /\ \A i \in 1..Len(products) :
       /\ IsNumber(products[i].total_inventory) /\ IsNumber(products[i].price_min)
  /\ \A i \in 1..Len(product_variants) :
       /\ IsNumber(product_variants[i].price)
       /\ \A v \in SampleVariants :
            v.id = product_variants[i].shopify_id =>
              /\ product_variants[i].price = Num(Expected(v.price))
              /\ (v.price.t \in {"null", "undefined"} => product_variants[i].price = Num(0))
  /\ \A i \in 1..Len(orders) : IsNumber(orders[i].total_price)
  /\ \A i \in 1..Len(line_items) :
       /\ IsNumber(line_items[i].quantity) /\ IsNumber(line_items[i].price)
  /\ (Completed /\ runClean /\ kind = "products")
       => \A i \in 1..Len(allProducts) :
            ProductIsValid(allProducts[i])
              => \A k \in 1..Len(allProducts[i].variants) :
                   allProducts[i].variants[k].id # ""
                     => \E r \in 1..Len(product_variants) :
                          product_variants[r].shopify_id = allProducts[i].variants[k].id

C13_Witness ==
  /\ Completed /\ runClean /\ kind = "products"
  /\ \E r, q \in 1..Len(product_variants) :
       /\ product_variants[r].shopify_id = "v3" /\ product_variants[r].price = Num(0)
       /\ product_variants[q].shopify_id = "v1" /\ product_variants[q].price = Num(1999)
  /\ \E i \in 1..Len(products) :
       /\ products[i].shopify_id = "p3" /\ products[i].total_inventory = Num(0)
       /\ products[i].price_min = Num(0)
  /\ \E i \in 1..Len(products) :
       /\ products[i].shopify_id = "p1" /\ products[i].price_min = Num(1250)

IsMissing(value) == value.t \in {"null", "undefined"}

\* no optional column of any row holds null
NoNullColumn ==
  /\ \A i \in 1..Len(products) :
       /\ products[i].description.t # "null" /\ products[i].created_at.t # "null"
       /\ products[i].total_inventory.t # "null" /\ products[i].price_min.t # "null"
  /\ \A i \in 1..Len(product_variants) : product_variants[i].price.t # "null"
  /\ \A i \in 1..Len(orders) :
       /\ orders[i].email.t # "null" /\ orders[i].total_price.t # "null"
       /\ orders[i].created_at.t # "null"
  /\ \A i \in 1..Len(line_items) :
       /\ line_items[i].quantity.t # "null" /\ line_items[i].price.t # "null"

\* missing strings are undefined and missing numbers 0 in the row written
StringsAndNumbersDefaulted ==
  /\ \A i \in 1..Len(products) : \A p \in SampleProducts :
       p.id = products[i].shopify_id =>
         /\ (IsMissing(p.description) => products[i].description = JsUndefined)
         /\ (~IsMissing(p.description) => products[i].description = p.description)
         /\ (IsMissing(p.totalInventory) => products[i].total_inventory = Num(0))
         /\ (IsMissing(p.priceMin) => products[i].price_min = Num(0))
  /\ \A i \in 1..Len(orders) : \A o \in SampleOrders :
       o.id = orders[i].shopify_id =>
         /\ (IsMissing(o.email) => orders[i].email = JsUndefined)
         /\ (IsMissing(o.totalPrice) => orders[i].total_price = Num(0))

C15_ReportedCounts ==
  (pc = "done" /\ lastStep.op = "count") =>
    /\ response.success /\ response.status = 200
    /\ Len(served) = FirstLastPage(Catalog)
    /\ response.count = Len(RecordsOfPages(Catalog, FirstLastPage(Catalog)))
    /\ response.syncedCount
         = Cardinality({i \in 1..Len(parentLog) : parentLog[i] \in Synced})
    /\ IF "finalCountError" \in lastStep.errs
       THEN response.databaseCount = ErrorCounting
       ELSE IF kind = "orders"
       THEN response.databaseCount
              = Cardinality({i \in 1..Len(orders) :
                               startDate <= orders[i].processed_at
                                 /\ orders[i].processed_at <= endDate})
       ELSE response.databaseCount = Len(products)

\* an order run whose period holds some but not all of the local orders
C15_Witness ==
  /\ pc = "done" /\ lastStep.op = "count" /\ kind = "orders" /\ response.success
  /\ response.databaseCount > 0 /\ response.databaseCount < Len(orders)
  /\ response.syncedCount > 0 /\ response.syncedCount < response.count

\* the waits taken after the response to request number i
WaitsAfter(i) == {w \in 1..Len(waits) : waits[w].after = i}

\* C16: between two consecutive page requests of a run there is exactly one
\* wait, of 500 ms whatever the number of pages fetched so far, and there is no
\* wait after a response that reports hasNextPage=false.
C16_FixedDelay ==
  kind # "none" =>
    /\ \A i \in 1..(Len(requests) - 1) : Cardinality(WaitsAfter(i)) = 1
    /\ \A w \in 1..Len(waits) :
         /\ waits[w].ms = 500
         /\ waits[w].after \in 1..Len(served)
         /\ Catalog[served[waits[w].after]].hasNextPage
    /\ \A i \in 1..Len(served) :
         /\ Cardinality(WaitsAfter(i)) <= 1
         /\ (~Catalog[served[i]].hasNextPage => WaitsAfter(i) = {})

C16_Witness ==
  /\ pc = "process" /\ Len(requests) = 3 /\ Len(served) = 3
  /\ Len(waits) = 2 /\ waits[1].after = 1 /\ waits[2].after = 2
  /\ ~Catalog[served[3]].hasNextPage

\* C17: the result of syncProductsAction / syncOrdersAction has success=true
\* only if the handler's response reported success; a handler response with
\* success=false gives a result with success=false, whichever way the handler
\* was called.
C17_ActionSuccessIsHandlerSuccess ==
  (pc = "returned" /\ kind # "none") =>
    /\ (syncResult.success => response.success)
    /\ (~response.success => ~syncResult.success)

\* C19: the service call always settles with a value, and every failure, of
\* the action or of the sync behind it, is the value success=false, count=0
\* with an error message.
C19_ServiceReportsFailures ==
  pc = "returned" =>
    /\ syncResult.settled
    /\ (~response.success => syncResult = SyncResponse(FALSE, 0, TRUE))

\* C20: the deprecated syncOrders called without a start or end date forwards
\* empty strings, and the backend then runs the order sync with default dates:
\* the call is not refused for lack of dates.
C20_DefaultDatesApplied ==
  (Ended /\ kind = "orders" /\ (args[1] = UndefinedDate \/ args[2] = UndefinedDate))
    => /\ (args[1] = UndefinedDate => startDate = NoDate)
       /\ (args[2] = UndefinedDate => endDate = NoDate)
       /\ response.status # 400
       /\ Len(requests) > 0

\* the UTC calendar day of an instant
CalendarDate(instant) == instant \div 86400

\* C18: the orders listing called with startDate and endDate returns only
\* orders whose processed_at calendar date (UTC) lies in [startDate, endDate],
\* and pagination.total counts every such order.
C18_ListingWithinRange ==
  (listing.status = 200 /\ listing.range[1] # NoDate /\ listing.range[2] # NoDate) =>
    /\ \A i \in listing.rows :
         /\ listing.range[1] <= CalendarDate(ProcessedAt(orders[i]))
         /\ CalendarDate(ProcessedAt(orders[i])) <= listing.range[2]
    /\ listing.total
         = Cardinality({i \in 1..Len(orders) :
                          /\ listing.range[1] <= CalendarDate(ProcessedAt(orders[i]))
                          /\ CalendarDate(ProcessedAt(orders[i])) <= listing.range[2]})

\* rows of the addresses table of one order and one address type
AddressesOf(order, type) ==
  {i \in 1..Len(addresses) :
     addresses[i].order_id = order /\ addresses[i].address_type = type}

\* C21: after any sequence of order sync runs the addresses table holds at
\* most one shipping row and at most one billing row per order, also when an
\* address existence lookup returned an error.
C21_OneAddressPerOrderAndType ==
  \A i \in 1..Len(addresses) :
    Cardinality(AddressesOf(addresses[i].order_id, addresses[i].address_type)) <= 1

\* C23: an order sync request whose startDate or endDate is missing or empty
\* is answered 400 with success=false, before any page was requested and
\* before any row was read or written.
C23_MissingDatesRejected ==
  (kind = "orders" /\ (startDate = NoDate \/ endDate = NoDate)) =>
    /\ Ended
    /\ response.status = 400 /\ ~response.success
    /\ requests = <<>> /\ served = <<>>
    /\ lastStep.op = "dates" /\ lastStep.reads = 0 /\ lastStep.writes = 0
    /\ ~wrote
    /\ Counts = prevEnd.counts

C23_Witness ==
  /\ kind = "orders" /\ startDate = 1 /\ endDate = NoDate
  /\ pc = "done" /\ response.status = 400
  /\ runs = 2 /\ Len(orders) > 0

\* a customer write that failed or returned no row
CustomerWriteErrs == {"updateError", "insertError", "noData"}

\* C26: address rows are written only for an order that has a customer with a
\* non-empty id whose upsert yielded an internal id; for an order without a
\* customer, or whose customer write failed, no address row is written and
\* its line items are still processed.
C26_AddressesNeedCustomer ==
  [][/\ (addresses' # addresses =>
           /\ kind = "orders" /\ pc \in {"shipping", "billing"}
           /\ allOrders[idx].customer # ""
           /\ customerId # Null
           /\ customers[customerId].shopify_id = allOrders[idx].customer)
     /\ ((kind = "orders" /\ pc = "customer" /\ lastStep'.op = "customer"
          /\ lastStep'.errs \cap CustomerWriteErrs # {}) =>
           /\ addresses' = addresses
           /\ customerId' = Null
           /\ IF Len(allOrders[idx].lineItems) > 0
              THEN pc' = "items" /\ idx' = idx /\ childIdx' = 1
              ELSE pc' = "process" /\ idx' = idx + 1)
     /\ ((kind = "orders" /\ pc = "process" /\ lastStep'.op = "order"
          /\ idx <= Len(allOrders) /\ syncedCount' = syncedCount + 1
          /\ allOrders[idx].customer = "") =>
           /\ addresses' = addresses
           /\ IF Len(allOrders[idx].lineItems) > 0
              THEN pc' = "items" /\ idx' = idx /\ childIdx' = 1
              ELSE pc' = "process" /\ idx' = idx + 1)]_vars

C26_Witness ==
  /\ kind = "orders" /\ pc = "items" /\ childIdx = 1
  /\ lastStep.op = "customer" /\ lastStep.errs \cap CustomerWriteErrs # {}
  /\ allOrders[idx].customer # "" /\ allOrders[idx].shippingAddress
  /\ customerId = Null

\* C25: the handler is invoked only after the connection test succeeded; when
\* the endpoint is empty or the connection test fails the handler is never
\* invoked, no path is revalidated and the result is success=false, count 0.
C25_ConnectionTestFirst ==
  /\ ((kind # "none" /\ pc # "idle") => connected)
  /\ ((pc = "returned" /\ ~connected) =>
        /\ kind = "none"
        /\ requests = <<>> /\ lastStep.op = "connection" /\ ~wrote
        /\ Counts = prevEnd.counts
        /\ revalidated = {}
        /\ syncResult.settled /\ ~syncResult.success /\ syncResult.count = 0)

C25_Witness ==
  /\ pc = "returned" /\ ~connected /\ runs = 2
  /\ prevEnd.kind = "orders" /\ Len(orders) > 0 /\ revalidated = {}

\* C22: when two sync runs over the same remote data run concurrently with
\* their database operations interleaved, no table ever holds two rows with
\* the same external id.
C22_NoDuplicateWhenInterleaved ==
  (\E h \in Handlers : handlers[h].pc # "idle") =>
    OneRowPerId(products) /\ OneRowPerId(orders)

====
